---------------------------- MODULE Spec2Model ----------------------------
(***************************************************************************)
(* A model of rust-polyglot: the PNG chunk model (src/src/png), the ZIP    *)
(* archive model and its offset patch (src/src/zip), the three embedding   *)
(* strategies (src/src/polyglot) and validation/extraction               *)
(* (src/src/extract).                                                      *)
(*                                                                         *)
(* Conventions.  A byte is a number in 0..255 and a buffer (Vec<u8>,       *)
(* &[u8]) is a sequence of bytes.  Offsets are 0-based as in the source;   *)
(* At and Slice translate them to TLA+'s 1-based sequences.  A u32 is      *)
(* kept as its four bytes, least significant first (a "word"), so that     *)
(* 32-bit arithmetic keeps its width: AddU32 adds with carry and reports   *)
(* the overflow.  A word is turned into a number only to be compared with  *)
(* a buffer length or used as an index (U32ToUsize).                       *)
(***************************************************************************)
EXTENDS Integers, Sequences, FiniteSets, TLC

(***************************************************************************)
(* Bytes and buffers                                                       *)
(***************************************************************************)
Byte == 0..255

At(data, i) == data[i + 1]

\* data[a..b] of the source: the bytes at offsets a, ..., b-1.
Slice(data, a, b) == SubSeq(data, a + 1, b)

\* data[a..] of the source.
SliceFrom(data, a) == SubSeq(data, a + 1, Len(data))

RECURSIVE XorBits(_, _)
XorBits(a, b) ==
    IF a = 0 THEN b
    ELSE IF b = 0 THEN a
    ELSE (((a % 2) + (b % 2)) % 2) + 2 * XorBits(a \div 2, b \div 2)

XorNibble == [a \in 0..15 |-> [b \in 0..15 |-> XorBits(a, b)]]

XorByte(a, b) == 16 * XorNibble[a \div 16][b \div 16] + XorNibble[(a % 16)][(b % 16)]

XorTable == [a \in 0..255 |-> [b \in 0..255 |-> XorByte(a, b)]]

Xor8(a, b) == XorTable[a][b]

(***************************************************************************)
(* 32-bit words: <<b0, b1, b2, b3>>, b0 the least significant byte.        *)
(***************************************************************************)
U32FromNat(n) ==
    << n % 256, (n \div 256) % 256, (n \div 65536) % 256, (n \div 16777216) % 256 >>

\* Lengths and offsets of the model's buffers are far below this value; a
\* word at or above it is larger than every buffer length it is compared to.
UsizeBeyond == 64 * 16777216

\* `x as usize` of a u32 x, exact below UsizeBeyond and UsizeBeyond from there on.
U32ToUsize(w) ==
    IF w[4] >= 64 THEN UsizeBeyond
    ELSE w[1] + 256 * w[2] + 65536 * w[3] + 16777216 * w[4]

\* a + b on u32: the sum modulo 2^32 and whether it overflowed.
AddU32(a, b) ==
    LET s1 == a[1] + b[1]
        s2 == a[2] + b[2] + (s1 \div 256)
        s3 == a[3] + b[3] + (s2 \div 256)
        s4 == a[4] + b[4] + (s3 \div 256)
    IN  [sum |-> << s1 % 256, s2 % 256, s3 % 256, s4 % 256 >>,
         overflow |-> s4 >= 256]

\* a >= b on u32.
GeU32(a, b) ==
    \/ a[4] > b[4]
    \/ a[4] = b[4] /\ a[3] > b[3]
    \/ a[4] = b[4] /\ a[3] = b[3] /\ a[2] > b[2]
    \/ a[4] = b[4] /\ a[3] = b[3] /\ a[2] = b[2] /\ a[1] >= b[1]

to_be_bytes(w) == << w[4], w[3], w[2], w[1] >>

to_le_bytes(w) == w

read_u32_be(bytes, offset) ==
    << At(bytes, offset + 3), At(bytes, offset + 2), At(bytes, offset + 1), At(bytes, offset) >>

read_u32_le(bytes, offset) ==
    << At(bytes, offset), At(bytes, offset + 1), At(bytes, offset + 2), At(bytes, offset + 3) >>

read_u16_le(data, offset) == At(data, offset) + 256 * At(data, offset + 1)

u16_to_le_bytes(n) == << n % 256, (n \div 256) % 256 >>

write_u32_le(bytes, offset, value) ==
    SubSeq(bytes, 1, offset) \o value \o SubSeq(bytes, offset + 5, Len(bytes))

\* The least and the greatest element of a non-empty set of numbers.
MinOf(S) == CHOOSE m \in S : \A k \in S : m <= k

MaxOf(S) == CHOOSE m \in S : \A k \in S : m >= k

\* Whether the bytes of pat stand in data at offset i (0-based).
MatchAt(data, i, pat) ==
    /\ i + Len(pat) <= Len(data)
    /\ \A k \in 1..Len(pat) : data[i + k] = pat[k]

\* data.windows(n).position(|w| w == pat): the first offset, or -1 for None.
WindowsPosition(data, pat) ==
    LET hits == {i \in 0..(Len(data) - Len(pat)) : MatchAt(data, i, pat)}
    IN  IF hits = {} THEN -1 ELSE MinOf(hits)

(***************************************************************************)
(* CRC-32 (crc32fast::Hasher): reflected polynomial EDB88320, initial      *)
(* value and final xor FFFFFFFF, computed byte by byte from the table.     *)
(***************************************************************************)
CrcPoly == << 32, 131, 184, 237 >>

CrcShift(c) ==
    LET h == << c[1] \div 2 + 128 * (c[2] % 2), c[2] \div 2 + 128 * (c[3] % 2),
                c[3] \div 2 + 128 * (c[4] % 2), c[4] \div 2 >>
    IN  IF c[1] % 2 = 1
        THEN << Xor8(h[1], CrcPoly[1]), Xor8(h[2], CrcPoly[2]),
                Xor8(h[3], CrcPoly[3]), Xor8(h[4], CrcPoly[4]) >>
        ELSE h

RECURSIVE CrcEntry(_, _)
CrcEntry(c, k) == IF k = 0 THEN c ELSE CrcEntry(CrcShift(c), k - 1)

CrcTable == [n \in 0..255 |-> CrcEntry(<< n, 0, 0, 0 >>, 8)]

\* (c >> 8) ^ t, t the table entry for the low byte of c xor-ed with the input byte.
CrcFold(c, t) == << Xor8(t[1], c[2]), Xor8(t[2], c[3]), Xor8(t[3], c[4]), t[4] >>

CrcByte(c, b) == CrcFold(c, CrcTable[Xor8(c[1], b)])

\* The hasher's update over data[lo..hi] (1-based, inclusive), bytes in order.
\* The range is halved so that the evaluation depth stays logarithmic.
RECURSIVE CrcUpdate(_, _, _, _)
CrcUpdate(c, data, lo, hi) ==
    IF lo > hi THEN c
    ELSE IF lo = hi THEN CrcByte(c, data[lo])
    ELSE LET mid == (lo + hi) \div 2
             c1 == CrcUpdate(c, data, lo, mid)
         IN  IF c1[1] >= 0 THEN CrcUpdate(c1, data, mid + 1, hi) ELSE c1

\* The final xor with FFFFFFFF.
CrcFinalize(c) == << 255 - c[1], 255 - c[2], 255 - c[3], 255 - c[4] >>

calculate_crc32(data) ==
    CrcFinalize(CrcUpdate(<< 255, 255, 255, 255 >>, data, 1, Len(data)))

(***************************************************************************)
(* Results.  Ok(v), Err(e) and a panic (the process aborts).               *)
(***************************************************************************)
Ok(v) == [tag |-> "Ok", val |-> v]

Err(kind, msg) == [tag |-> "Err", kind |-> kind, msg |-> msg]

Panic(why) == [tag |-> "Panic", why |-> why]

IsOk(r) == r.tag = "Ok"

IsErr(r) == r.tag = "Err"

IsPanic(r) == r.tag = "Panic"

(***************************************************************************)
(* Fixed byte strings of the two formats                                   *)
(***************************************************************************)
PNG_SIGNATURE == << 137, 80, 78, 71, 13, 10, 26, 10 >>

IHDR == << 73, 72, 68, 82 >>

IDAT == << 73, 68, 65, 84 >>

IEND == << 73, 69, 78, 68 >>

tEXt == << 116, 69, 88, 116 >>

\* A keyword of no bytes.
no_keyword == << >>

\* b"ZIP Archive"
keyword == << 90, 73, 80, 32, 65, 114, 99, 104, 105, 118, 101 >>

\* PK\x03\x04, PK\x01\x02, PK\x05\x06: as bytes they are the little-endian
\* words 0x04034B50, 0x02014B50 and 0x06054B50.
ZIP_SIG == << 80, 75, 3, 4 >>

CD_SIG == << 80, 75, 1, 2 >>

EOCD_SIG == << 80, 75, 5, 6 >>

(***************************************************************************)
(* utils                                                                   *)
(***************************************************************************)
\* A signature test that wants at least one byte after the signature.
signature_and_more(data) ==
    Len(data) > 8 /\ Slice(data, 0, 8) = PNG_SIGNATURE

\* data.len() >= 8 && &data[0..8] == &[0x89, 0x50, 0x4E, 0x47, 0x0D, 0x0A, 0x1A, 0x0A]
is_png_signature(data) ==
    Len(data) >= 8 /\ Slice(data, 0, 8) = PNG_SIGNATURE

\* String::from_utf8_lossy of a chunk type: an ASCII byte is kept, any other
\* byte becomes the replacement character U+FFFD.
LossyChar(b) == IF b < 128 THEN b ELSE 65533

from_utf8_lossy(bytes) ==
    << LossyChar(bytes[1]), LossyChar(bytes[2]), LossyChar(bytes[3]), LossyChar(bytes[4]) >>

(***************************************************************************)
(* png::parser                                                             *)
(***************************************************************************)
\* A comparison that lets every stored checksum pass.
crc_unchecked(expected_crc, calculated_crc) == FALSE

\* if expected_crc != calculated_crc
crc_mismatch(expected_crc, calculated_crc) == expected_crc # calculated_crc

\* The while loop of parse_png_chunks, from `offset` with `chunks` pushed so far.
RECURSIVE ParseLoop(_, _, _)
ParseLoop(data, offset, chunks) ==
    LET done == IF chunks = << >>
                THEN Err("PngParse", "No chunks found")
                ELSE Ok([chunks |-> chunks])
    IN
    IF ~(offset + 12 <= Len(data)) THEN done
    ELSE
    LET length == read_u32_be(data, offset)
        off1 == offset + 4
        chunk_type == Slice(data, off1, off1 + 4)
        off2 == off1 + 4
        data_end == off2 + U32ToUsize(length)
        chunk_data == Slice(data, off2, data_end)
        crc == read_u32_be(data, data_end)
        off3 == data_end + 4
        calculated_crc == calculate_crc32(chunk_type \o chunk_data)
        chunk == [length |-> length,
                  chunk_type |-> chunk_type,
                  data |-> chunk_data,
                  crc |-> crc,
                  data_offset |-> off3 - U32ToUsize(length) - 8]
    IN
    IF off1 + 4 > Len(data)
    THEN Err("PngParse", "Insufficient data for chunk type")
    ELSE IF data_end > Len(data)
    THEN Err("PngParse", "Chunk data extends beyond file")
    ELSE IF data_end + 4 > Len(data)
    THEN Panic("read_u32_be: slice index out of range")
    ELSE IF crc_mismatch(crc, calculated_crc)
    THEN Err("CrcMismatch", from_utf8_lossy(chunk_type))
    ELSE IF chunk_type = IEND
    THEN Ok([chunks |-> Append(chunks, chunk)])
    ELSE ParseLoop(data, off3, Append(chunks, chunk))

parse_png_chunks(data) ==
    IF ~is_png_signature(data)
    THEN Err("PngParse", "Invalid PNG signature")
    ELSE ParseLoop(data, 8, << >>)

find_first_idat(png) ==
    LET hits == {i \in 1..Len(png.chunks) : png.chunks[i].chunk_type = IDAT}
    IN  IF hits = {} THEN Err("NoIdatChunk", "")
        ELSE Ok(png.chunks[MinOf(hits)])

(***************************************************************************)
(* png::PngFile.  A method that takes &mut self is an operator from the    *)
(* object (and the arguments) to [res, self]: the result and the object    *)
(* as the call leaves it.                                                  *)
(***************************************************************************)
\* Ok(()) after `?`: the error (or the panic) of r, or Ok(()).
Done(r) == IF IsOk(r) THEN Ok("unit") ELSE r

PngFileOf(data, parsed) ==
    IF IsOk(parsed) THEN Ok([raw_data |-> data, parsed |-> parsed.val]) ELSE parsed

PngFile_from_data(data) == PngFileOf(data, parse_png_chunks(data))

IdatPlace(chunk) ==
    IF IsOk(chunk)
    THEN Ok([offset |-> chunk.val.data_offset, length |-> Len(chunk.val.data)])
    ELSE chunk

PngFile_find_first_idat(self) == IdatPlace(find_first_idat(self.parsed))

\* One chunk as the bytes length | type | payload | checksum.
ChunkBytes(length, chunk_type, data, crc) ==
    to_be_bytes(length) \o chunk_type \o data \o to_be_bytes(crc)

\* self.raw_data = new_data; self.parsed = parse_png_chunks(&self.raw_data)?;
\* Ok(()).  raw_data is assigned before the parse, so it stays assigned when the
\* parse fails and parsed is left as it was.
Reparsed(self, new_data, parsed) ==
    IF IsOk(parsed)
    THEN [res |-> Ok("unit"), self |-> [raw_data |-> new_data, parsed |-> parsed.val]]
    ELSE [res |-> parsed, self |-> [raw_data |-> new_data, parsed |-> self.parsed]]

ReplaceRawData(self, new_data) == Reparsed(self, new_data, parse_png_chunks(new_data))

\* The new tEXt chunk: keyword, a zero byte, the archive; length, type and CRC.
TextChunk(chunk_data) ==
    ChunkBytes(U32FromNat(Len(chunk_data)), tEXt, chunk_data,
               calculate_crc32(tEXt \o chunk_data))

\* The rest of add_zip_text_chunk once windows(4).position(..) gave pos (-1: None).
InsertBeforeIend(self, pos, zip_data) ==
    IF pos < 0
    THEN [res |-> Panic("unwrap on None: no IEND in raw_data"), self |-> self]
    ELSE IF pos - 4 < 0
    THEN [res |-> Panic("position - 4 below zero"), self |-> self]
    ELSE ReplaceRawData(self,
             Slice(self.raw_data, 0, pos - 4) \o TextChunk(keyword \o << 0 >> \o zip_data)
                 \o SliceFrom(self.raw_data, pos - 4))

add_zip_text_chunk(self, zip_data) ==
    InsertBeforeIend(self, WindowsPosition(self.raw_data, IEND), zip_data)

\* The modified IDAT chunk: the payload with its new length and a fresh CRC.
NewIdat(new_idat_data) ==
    ChunkBytes(U32FromNat(Len(new_idat_data)), IDAT, new_idat_data,
               calculate_crc32(IDAT \o new_idat_data))

\* The for loop of append_to_idat from chunk i on: the bytes it appends to new_data.
RECURSIVE AppendLoop(_, _, _, _)
AppendLoop(chunks, i, found_idat, additional_data) ==
    IF i > Len(chunks) THEN << >>
    ELSE IF chunks[i].chunk_type = IDAT /\ ~found_idat
    THEN NewIdat(chunks[i].data \o additional_data)
             \o AppendLoop(chunks, i + 1, TRUE, additional_data)
    ELSE ChunkBytes(chunks[i].length, chunks[i].chunk_type, chunks[i].data, chunks[i].crc)
             \o AppendLoop(chunks, i + 1, found_idat, additional_data)

append_to_idat(self, additional_data) ==
    IF ~IsOk(find_first_idat(self.parsed))
    THEN [res |-> find_first_idat(self.parsed), self |-> self]
    ELSE ReplaceRawData(self,
             Slice(self.raw_data, 0, 8)
                 \o AppendLoop(self.parsed.chunks, 1, FALSE, additional_data))

(***************************************************************************)
(* zip::offsets                                                            *)
(***************************************************************************)
\* A u64 argument is kept as two words, [hi, lo].
U64FromNat(n) == [hi |-> << 0, 0, 0, 0 >>, lo |-> U32FromNat(n)]

U32_MAX == << 255, 255, 255, 255 >>

EocdAt(data, offset) ==
    [signature |-> read_u32_le(data, offset),
     disk_num |-> read_u16_le(data, offset + 4),
     cd_disk_num |-> read_u16_le(data, offset + 6),
     num_entries_disk |-> read_u16_le(data, offset + 8),
     num_entries_total |-> read_u16_le(data, offset + 10),
     cd_size |-> read_u32_le(data, offset + 12),
     cd_offset |-> read_u32_le(data, offset + 16),
     comment_length |-> read_u16_le(data, offset + 20)]

\* The backward scan visits offset = len - 22, len - 23, ..., 1 (while offset > 0)
\* and returns at the first signature whose comment length fits: the greatest
\* such offset.
find_eocd(data) ==
    IF Len(data) < 22
    THEN Err("ZipParse", "ZIP data too short for EOCD")
    ELSE LET hits == {offset \in 1..(Len(data) - 22) :
                        /\ read_u32_le(data, offset) = EOCD_SIG
                        /\ read_u16_le(data, offset + 20) <= Len(data) - offset - 22}
         IN  IF hits = {}
             THEN Err("ZipParse", "EOCD record not found")
             ELSE Ok(EocdAt(data, MaxOf(hits)))

uses_zip64(data, eocd) ==
    \/ eocd.num_entries_disk = 65535
    \/ eocd.num_entries_total = 65535
    \/ eocd.cd_size = U32_MAX
    \/ eocd.cd_offset = U32_MAX

\* The while loop of update_central_directory_offsets from `offset` on.
\* current_offset + adjustment is a u32 addition: with overflow checks (a debug
\* build) it panics on overflow, without them (a release build) it wraps.
RECURSIVE UpdateLoop(_, _, _, _, _)
UpdateLoop(data, offset, original_cd_offset, adjustment, checks) ==
    IF ~(offset + 46 <= Len(data)) THEN [res |-> Ok("unit"), data |-> data]
    ELSE IF read_u32_le(data, offset) # CD_SIG THEN [res |-> Ok("unit"), data |-> data]
    ELSE
    LET local_offset_offset == offset + 42
        current_offset == read_u32_le(data, local_offset_offset)
        new_offset == AddU32(current_offset, adjustment)
        adjust == /\ local_offset_offset + 4 <= Len(data)
                  /\ GeU32(current_offset, original_cd_offset)
        data1 == IF adjust
                 THEN write_u32_le(data, local_offset_offset, new_offset.sum)
                 ELSE data
        name_len == read_u16_le(data1, offset + 28)
        extra_len == read_u16_le(data1, offset + 30)
        comment_len == read_u16_le(data1, offset + 32)
    IN  IF adjust /\ new_offset.overflow /\ checks
        THEN [res |-> Panic("attempt to add with overflow"), data |-> data]
        ELSE UpdateLoop(data1, offset + 46 + name_len + extra_len + comment_len,
                        original_cd_offset, adjustment, checks)

update_central_directory_offsets(data, original_cd_offset, offset_adjustment, checks) ==
    IF offset_adjustment.hi = << 0, 0, 0, 0 >> /\ offset_adjustment.lo = << 0, 0, 0, 0 >>
    THEN [res |-> Ok("unit"), data |-> data]
    ELSE IF offset_adjustment.hi # << 0, 0, 0, 0 >>
    THEN [res |-> Err("ZipParse", "Offset adjustment too large for ZIP format"),
          data |-> data]
    ELSE UpdateLoop(data, U32ToUsize(original_cd_offset), original_cd_offset,
                    offset_adjustment.lo, checks)

update_eocd_cd_offset(data, eocd_offset, new_cd_offset) ==
    LET cd_offset_pos == eocd_offset + 16
    IN  IF cd_offset_pos + 4 > Len(data)
        THEN [res |-> Err("ZipParse", "Invalid EOCD offset"), data |-> data]
        ELSE [res |-> Ok("unit"), data |-> write_u32_le(data, cd_offset_pos, new_cd_offset)]

validate_zip_signature(data) ==
    IF Len(data) < 4 THEN FALSE ELSE read_u32_le(data, 0) = ZIP_SIG

(***************************************************************************)
(* zip::ZipArchive                                                         *)
(***************************************************************************)
\* The second scan of from_data: from len - 22 down while eocd_offset > 0,
\* stopping at the first signature, whatever its comment length; 0 when the
\* loop runs out.
EocdOffsetScan(data) ==
    LET hits == {o \in 1..(Len(data) - 22) : read_u32_le(data, o) = EOCD_SIG}
    IN  IF hits = {} THEN 0 ELSE MaxOf(hits)

ZipArchive_from_data(data) ==
    LET eocd == find_eocd(data)
    IN  IF ~validate_zip_signature(data)
        THEN Err("ZipParse", "Invalid ZIP signature")
        ELSE IF ~IsOk(eocd) THEN eocd
        ELSE Ok([data |-> data, eocd_offset |-> EocdOffsetScan(data), eocd |-> eocd.val])

\* After update_eocd_cd_offset(..)?: the cached copy is updated.
TrailerWritten(self, written, new_cd_offset) ==
    IF ~IsOk(written.res) THEN [res |-> written.res, self |-> self]
    ELSE [res |-> Ok("unit"),
          self |-> [self EXCEPT !.data = written.data, !.eocd.cd_offset = new_cd_offset]]

\* After offsets::update_central_directory_offsets(..)?, which worked on
\* self.data in place.  new_cd_offset is self.eocd.cd_offset + offset_adjustment
\* as u32, a u32 addition: it panics on overflow with overflow checks and wraps
\* without them.
EntriesPatched(self, patched, new_cd_offset, checks) ==
    IF ~IsOk(patched.res)
    THEN [res |-> patched.res, self |-> [self EXCEPT !.data = patched.data]]
    ELSE IF new_cd_offset.overflow /\ checks
    THEN [res |-> Panic("attempt to add with overflow"),
          self |-> [self EXCEPT !.data = patched.data]]
    ELSE TrailerWritten([self EXCEPT !.data = patched.data],
             update_eocd_cd_offset(patched.data, self.eocd_offset, new_cd_offset.sum),
             new_cd_offset.sum)

ZipArchive_update_central_directory_offsets(self, offset_adjustment, checks) ==
    IF uses_zip64(self.data, self.eocd)
    THEN [res |-> Err("ZipParse", "ZIP64 format not supported"), self |-> self]
    ELSE EntriesPatched(self,
             update_central_directory_offsets(
                 self.data, self.eocd.cd_offset, offset_adjustment, checks),
             AddU32(self.eocd.cd_offset, offset_adjustment.lo), checks)

(***************************************************************************)
(* Input files.  The containers and archives the operations are run on are *)
(* built the way the repository's test helpers build theirs.               *)
(***************************************************************************)
Zeros(n) == SubSeq(<< 0, 0, 0, 0, 0, 0, 0, 0, 0, 0, 0, 0, 0, 0, 0, 0 >>, 1, n)

MkChunk(chunk_type, data) ==
    ChunkBytes(U32FromNat(Len(data)), chunk_type, data, calculate_crc32(chunk_type \o data))

ihdr_data == << 0, 0, 0, 1, 0, 0, 0, 1, 8, 2, 0, 0, 0 >>

idat_data == << 120, 156, 237, 193, 1, 1, 0, 0, 0, 128, 144, 254, 55, 16 >>

create_test_png ==
    PNG_SIGNATURE \o MkChunk(IHDR, ihdr_data) \o MkChunk(IDAT, idat_data)
        \o MkChunk(IEND, << >>)

\* `data` with the byte at offset i xor-ed with mask.
FlipByte(data, i, mask) ==
    Slice(data, 0, i) \o << Xor8(At(data, i), mask) >> \o SliceFrom(data, i + 1)

\* Other containers: with a second IDAT chunk; without any IDAT chunk; with a
\* tEXt chunk whose payload reads "IEND" before the image data; without the
\* IEND chunk; with three bytes after the IEND chunk.
two_idat_png ==
    PNG_SIGNATURE \o MkChunk(IHDR, ihdr_data) \o MkChunk(IDAT, idat_data)
        \o MkChunk(IDAT, << 1, 2 >>) \o MkChunk(IEND, << >>)

no_idat_png == PNG_SIGNATURE \o MkChunk(IHDR, ihdr_data) \o MkChunk(IEND, << >>)

iend_text_png ==
    PNG_SIGNATURE \o MkChunk(IHDR, ihdr_data) \o MkChunk(tEXt, << 97, 0 >> \o IEND)
        \o MkChunk(IDAT, idat_data) \o MkChunk(IEND, << >>)

no_iend_png == PNG_SIGNATURE \o MkChunk(IHDR, ihdr_data) \o MkChunk(IDAT, idat_data)

trailing_png == create_test_png \o << 0, 1, 2 >>

\* The tests' container with one bit of the stored IHDR checksum changed.
bad_crc_png == FlipByte(create_test_png, 29, 1)

\* A local file header followed by the (stored) payload.
LocalFileHeader(name, crc, size) ==
    ZIP_SIG \o << 10, 0 >> \o << 0, 0 >> \o << 0, 0 >> \o << 0, 0, 0, 0 >>
        \o to_le_bytes(crc) \o to_le_bytes(size) \o to_le_bytes(size)
        \o u16_to_le_bytes(Len(name)) \o << 0, 0 >> \o name

CentralDirectoryHeader(version_made_by, name, crc, size, local_header_offset) ==
    CD_SIG \o version_made_by \o << 10, 0 >> \o << 0, 0 >> \o << 0, 0 >>
        \o << 0, 0, 0, 0 >> \o to_le_bytes(crc) \o to_le_bytes(size) \o to_le_bytes(size)
        \o u16_to_le_bytes(Len(name)) \o << 0, 0 >> \o << 0, 0 >> \o << 0, 0 >>
        \o << 0, 0 >> \o << 0, 0, 0, 0 >> \o to_le_bytes(local_header_offset) \o name

EndOfCentralDirectory(entries, cd_size, cd_offset, comment) ==
    EOCD_SIG \o << 0, 0 >> \o << 0, 0 >> \o u16_to_le_bytes(entries)
        \o u16_to_le_bytes(entries) \o to_le_bytes(cd_size) \o to_le_bytes(cd_offset)
        \o u16_to_le_bytes(Len(comment)) \o comment

\* b"test"
test_name == << 116, 101, 115, 116 >>

\* The tests' archive: one empty entry; its trailer declares the directory at
\* offset 26 and 22 bytes long, as the helper writes it.
create_test_zip ==
    LocalFileHeader(test_name, Zeros(4), Zeros(4))
        \o CentralDirectoryHeader(<< 10, 0 >>, test_name, Zeros(4), Zeros(4), Zeros(4))
        \o EndOfCentralDirectory(1, U32FromNat(22), U32FromNat(26), << >>)

\* An archive of two empty entries "a" and "b" laid out as usual: the two local
\* headers (31 bytes each), then the directory, then the trailer (with `comment`).
\* off1 and off2 are the local_header_offset fields of the two entries.
TwoEntryZip(off1, off2, comment) ==
    LocalFileHeader(<< 97 >>, Zeros(4), Zeros(4))
        \o LocalFileHeader(<< 98 >>, Zeros(4), Zeros(4))
        \o CentralDirectoryHeader(<< 10, 0 >>, << 97 >>, Zeros(4), Zeros(4), off1)
        \o CentralDirectoryHeader(<< 10, 0 >>, << 98 >>, Zeros(4), Zeros(4), off2)
        \o EndOfCentralDirectory(2, U32FromNat(94), U32FromNat(62), comment)

(***************************************************************************)
(* PolyglotCreator.  A creation method is an operator from the creator to   *)
(* [res, self, written]: the result, the creator as the call leaves it, and *)
(* the bytes written to the output path (<< >> with wrote = FALSE when      *)
(* nothing is written).  Writing the file itself is taken to succeed.       *)
(***************************************************************************)
CreatorOf(p, z) ==
    IF ~IsOk(p) THEN p
    ELSE IF ~IsOk(z) THEN z
    ELSE Ok([png |-> p.val, zip |-> z.val])

PolyglotCreator_from_data(png_data, zip_data) ==
    CreatorOf(PngFile_from_data(png_data), ZipArchive_from_data(zip_data))

NotWritten(res, self) == [res |-> res, self |-> self, wrote |-> FALSE, written |-> << >>]

Written(self, bytes) == [res |-> Ok("unit"), self |-> self, wrote |-> TRUE, written |-> bytes]

\* b"image.png"
png_filename == << 105, 109, 97, 103, 101, 46, 112, 110, 103 >>

\* The local file header as first written (CRC and sizes zero), the stored
\* container, then the three 4-byte copies at file_header_pos.
StoredEntry(png_data, crc, size) ==
    write_u32_le(
        write_u32_le(
            write_u32_le(LocalFileHeader(png_filename, Zeros(4), Zeros(4)) \o png_data,
                         14, crc),
            14 + 4, size),
        14 + 8, size)

\* The bytes create_zip_dominant_polyglot builds, given the CRC-32 of png_data.
\* png_offset is the length of the local file header, cd_offset the length of
\* the buffer when the directory header is started; the directory size is taken
\* when 12 bytes of the trailer are already in the buffer.
ZipPolyglotBytes(png_data, crc, size, png_offset) ==
    StoredEntry(png_data, crc, size)
        \o CentralDirectoryHeader(<< 10, 3 >>, png_filename, crc, size, U32FromNat(png_offset))
        \o EndOfCentralDirectory(1,
               U32FromNat((46 + Len(png_filename)) + 12),
               U32FromNat(png_offset + Len(png_data)), << >>)

\* A polyglot that puts the container first and the archive after it.
create_png_then_zip(self) == Written(self, self.png.raw_data \o self.zip.data)

create_zip_dominant_polyglot(self) ==
    Written(self, ZipPolyglotBytes(self.png.raw_data, calculate_crc32(self.png.raw_data),
                                   U32FromNat(Len(self.png.raw_data)),
                                   30 + Len(png_filename)))

\* find_first_idat, the offset patch and append_to_idat: the steps that
\* create_png_dominant_polyglot_idat and create_polyglot_in_memory share, each
\* ended by `?`.  [res, self]; res is Ok(raw_data) when all three succeed.
Appended(zip, appended) ==
    IF ~IsOk(appended.res)
    THEN [res |-> appended.res, self |-> [png |-> appended.self, zip |-> zip]]
    ELSE [res |-> Ok(appended.self.raw_data), self |-> [png |-> appended.self, zip |-> zip]]

Patched(self, patched) ==
    IF ~IsOk(patched.res)
    THEN [res |-> patched.res, self |-> [self EXCEPT !.zip = patched.self]]
    ELSE Appended(patched.self, append_to_idat(self.png, patched.self.data))

IdatFound(self, idat, checks) ==
    IF ~IsOk(idat) THEN [res |-> idat, self |-> self]
    ELSE Patched(self,
             ZipArchive_update_central_directory_offsets(
                 self.zip, U64FromNat(idat.val.offset + idat.val.length + 8), checks))

EmbedInIdat(self, checks) == IdatFound(self, PngFile_find_first_idat(self.png), checks)

\* A creation that writes the file before it looks at the result of the steps.
write_before_check(r) ==
    [res |-> r.res, self |-> r.self, wrote |-> TRUE, written |-> r.self.png.raw_data]

\* self.png.write_to_file(output_path)?; Ok(())
WriteToFile(r) ==
    IF IsOk(r.res) THEN Written(r.self, r.self.png.raw_data) ELSE NotWritten(r.res, r.self)

create_png_dominant_polyglot_idat(self, checks) == WriteToFile(EmbedInIdat(self, checks))

TextAdded(self, added) == [res |-> added.res, self |-> [self EXCEPT !.png = added.self]]

create_png_dominant_polyglot_text(self) ==
    WriteToFile(TextAdded(self, add_zip_text_chunk(self.png, self.zip.data)))

create_polyglot_with_method(self, method, checks) ==
    CASE method = "zip" -> create_zip_dominant_polyglot(self)
      [] method = "idat" -> create_png_dominant_polyglot_idat(self, checks)
      [] method = "text" -> create_png_dominant_polyglot_text(self)
      [] OTHER -> NotWritten(Err("InvalidInput", << "Unknown embedding method: {}", method >>), self)

create_polyglot_in_memory(self, checks) == EmbedInIdat(self, checks)

\* PngWavPolyglotCreator { png, wav }: the WavFile is its bytes (its parsed
\* structure is not used here).
append_wav_to_idat(self, wav_data) == append_to_idat(self, wav_data)

WavAppended(self, appended) ==
    [res |-> appended.res, self |-> [self EXCEPT !.png = appended.self]]

PngWavPolyglotCreator_create_polyglot(self) ==
    WriteToFile(WavAppended(self, append_wav_to_idat(self.png, self.wav.raw_data)))

(***************************************************************************)
(* extract: validation and extraction.  Both read the whole file, look at   *)
(* its first bytes and go one of two ways; `dominant` records which.        *)
(***************************************************************************)
\* The #[error("...")] text of each PolyglotError variant.
Display(kind) ==
    CASE kind = "PngParse" -> "PNG parse error: {0}"
      [] kind = "ZipParse" -> "ZIP parse error: {0}"
      [] kind = "CrcMismatch" -> "CRC mismatch in chunk {0}"
      [] kind = "NoIdatChunk" -> "No IDAT chunk found"
      [] kind = "InputFile" -> "Input file error: {0}"
      [] kind = "ValidationFailed" -> "Validation failed: {0}"
      [] kind = "InvalidInput" -> "Invalid input: {0}"

\* err.to_string(): the variant's text and the value that fills it.
to_string(err) == << Display(err.kind), err.msg >>

find_zip_signature(data) == WindowsPosition(data, ZIP_SIG)

extract_zip_from_png_file(data) ==
    LET pos == find_zip_signature(SliceFrom(data, 8))
        zip_start == 8 + pos
        zip_slice == SliceFrom(data, zip_start)
        eocd_pos_in_zip == Len(zip_slice) - 22
        zip_end == zip_start + eocd_pos_in_zip + 22
    IN  IF pos < 0
        THEN [res |-> Err("ValidationFailed", "No ZIP signature found in PNG polyglot"),
              wrote |-> FALSE, written |-> << >>]
        ELSE IF IsOk(find_eocd(zip_slice))
        THEN [res |-> Ok("unit"), wrote |-> TRUE, written |-> Slice(data, zip_start, zip_end)]
        ELSE [res |-> Ok("unit"), wrote |-> TRUE, written |-> SliceFrom(data, zip_start)]

\* b"RIFF"
RIFF_SIG == << 82, 73, 70, 70 >>

find_riff_signature(data) == WindowsPosition(data, RIFF_SIG)

\* The container-first branch of extract_wav_from_png once
\* find_riff_signature(&data[8..]) gave pos (-1: None).
WavAt(data, pos) ==
    IF pos < 0
    THEN [res |-> Err("ValidationFailed", "No WAV signature found in PNG polyglot"),
          wrote |-> FALSE, written |-> << >>]
    ELSE IF 8 + pos + 8 > Len(data)
    THEN [res |-> Err("ValidationFailed", "Invalid WAV data in polyglot"),
          wrote |-> FALSE, written |-> << >>]
    ELSE IF 8 + pos + (U32ToUsize(read_u32_le(data, 8 + pos + 4)) + 8) > Len(data)
    THEN [res |-> Err("ValidationFailed", "WAV data extends beyond polyglot file"),
          wrote |-> FALSE, written |-> << >>]
    ELSE [res |-> Ok("unit"), wrote |-> TRUE,
          written |-> Slice(data, 8 + pos,
                            8 + pos + (U32ToUsize(read_u32_le(data, 8 + pos + 4)) + 8))]

\* The file at polyglot_path is `polyglot` (it may not exist).  &data[0..4]
\* aborts on a file shorter than four bytes.
extract_wav_from_png(polyglot) ==
    IF ~polyglot.exists
    THEN [res |-> Err("InputFile", "No such file or directory"),
          wrote |-> FALSE, written |-> << >>]
    ELSE IF is_png_signature(polyglot.data)
    THEN WavAt(polyglot.data, find_riff_signature(SliceFrom(polyglot.data, 8)))
    ELSE IF Len(polyglot.data) < 4
    THEN [res |-> Panic("range end index 4 out of range for slice"),
          wrote |-> FALSE, written |-> << >>]
    ELSE IF Slice(polyglot.data, 0, 4) = RIFF_SIG
    THEN [res |-> Ok("unit"), wrote |-> TRUE, written |-> polyglot.data]
    ELSE [res |-> Err("ValidationFailed", "File is neither PNG nor WAV format"),
          wrote |-> FALSE, written |-> << >>]

extract_png_from_zip_file(data) ==
    LET png_start == WindowsPosition(data, PNG_SIGNATURE)
    IN  IF png_start < 0
        THEN [res |-> Err("ValidationFailed", "No PNG data found in ZIP polyglot"),
              wrote |-> FALSE, written |-> << >>]
        ELSE [res |-> Ok("unit"), wrote |-> TRUE, written |-> SliceFrom(data, png_start)]

\* The file at polyglot_path is `polyglot` (it may not exist).
extract_zip_from_png(polyglot) ==
    LET data == polyglot.data
        is_png_first == is_png_signature(data)
    IN  IF ~polyglot.exists
        THEN [res |-> Err("InputFile", "No such file or directory"),
              wrote |-> FALSE, written |-> << >>, dominant |-> "unread"]
        ELSE IF is_png_first
        THEN [dominant |-> "png"] @@ extract_zip_from_png_file(data)
        ELSE [dominant |-> "zip"] @@ extract_png_from_zip_file(data)

validate_as_zip(data) ==
    IF Len(data) < 4 \/ Slice(data, 0, 4) # ZIP_SIG
    THEN Err("ValidationFailed", "Invalid ZIP signature")
    ELSE Done(ZipArchive_from_data(data))

\* The rest of validate_png_within_zip once ZipArchive::from_data(..)? gave z
\* and windows(8).position(..) gave pos.
PngAt(data, z, pos) ==
    IF ~IsOk(z) THEN z
    ELSE IF pos >= 0
    THEN Done(parse_png_chunks(SliceFrom(data, pos)))
    ELSE Err("ValidationFailed", "No valid PNG found within ZIP structure")

validate_png_within_zip(data) ==
    PngAt(data, ZipArchive_from_data(data), WindowsPosition(data, PNG_SIGNATURE))

validate_as_png(data) ==
    IF ~is_png_signature(data)
    THEN Err("ValidationFailed", "Invalid PNG signature")
    ELSE Done(parse_png_chunks(data))

\* The rest of validate_zip_within_png once validate_as_png(data)? gave valid
\* and find_zip_signature(&data[8..]) gave pos.
ZipAt(data, valid, pos) ==
    IF ~IsOk(valid) THEN valid
    ELSE IF pos < 0 THEN Err("ValidationFailed", "No ZIP signature found")
    ELSE Done(ZipArchive_from_data(SliceFrom(data, 8 + pos)))

validate_zip_within_png(data) ==
    ZipAt(data, validate_as_png(data), find_zip_signature(SliceFrom(data, 8)))

\* The match on the two results; a panic in either validation ends the call.
ValidationResultOf(png_result, zip_result, png_first) ==
    IF IsPanic(png_result) THEN png_result
    ELSE IF IsPanic(zip_result) THEN zip_result
    ELSE IF IsOk(png_result) /\ IsOk(zip_result) THEN Ok([tag |-> "Valid"])
    ELSE IF IsOk(zip_result)
    THEN Ok([tag |-> "InvalidPng", msg |-> to_string(png_result)])
    ELSE IF IsOk(png_result)
    THEN Ok([tag |-> "InvalidZip", msg |-> to_string(zip_result)])
    ELSE IF png_first
    THEN Ok([tag |-> "InvalidBoth", msg |-> << to_string(png_result), to_string(zip_result) >>])
    ELSE Ok([tag |-> "InvalidBoth", msg |-> << to_string(zip_result), to_string(png_result) >>])

validate_polyglot(polyglot) ==
    LET data == polyglot.data
        is_png_first == is_png_signature(data)
    IN  IF ~polyglot.exists
        THEN [res |-> Err("InputFile", "No such file or directory"), dominant |-> "unread"]
        ELSE IF is_png_first
        THEN [res |-> ValidationResultOf(validate_as_png(data),
                                         validate_zip_within_png(data), TRUE),
              dominant |-> "png"]
        ELSE [res |-> ValidationResultOf(validate_png_within_zip(data),
                                         validate_as_zip(data), FALSE),
              dominant |-> "zip"]

(***************************************************************************)
(* State                                                                   *)
(***************************************************************************)
VARIABLES
    overflow_checks, \* the build: TRUE = overflow checks on (debug), FALSE = release
    png,             \* the PngFile, as PngFile::from_data returned it
    zip,             \* the ZipArchive, as ZipArchive::from_data returned it
    file,            \* the polyglot file at the output path
    extracted,       \* the file an extraction wrote
    last,            \* the last call: its name, argument and result
    pre,             \* history: png and zip as they were before the last call
    patches,         \* history: the successful non-zero offset patches of zip so far
    nops,            \* calls made so far
    wav,             \* the bytes of the WavFile, as WavFile::from_file returned it
    constructed      \* history: the bytes the creator was constructed with

vars == << overflow_checks, png, zip, file, extracted, last, pre, patches, nops, wav,
          constructed >>

\* The longest sequence of calls explored.
MaxOps == 2

NoObject == [tag |-> "None"]

\* No creator has been constructed.
NotConstructed == [png |-> << >>, zip |-> << >>, wav |-> << >>]

\* A file: whether it exists, its bytes, and (history) the creation method that
\* wrote it with the container and archive bytes it was made from.
NoOrigin == [method |-> "none", png |-> << >>, zip |-> << >>]

NoFile == [exists |-> FALSE, data |-> << >>, origin |-> NoOrigin]

FileOf(data) == [exists |-> TRUE, data |-> data, origin |-> NoOrigin]

Call(op, arg, res) == [op |-> op, arg |-> arg, res |-> res]

\* A call can be made: the bound is not reached and the process has not aborted.
Running == nops < MaxOps /\ ~IsPanic(last.res)

(***************************************************************************)
(* SpecZip: one ZipArchive and the calls of its offset patch.              *)
(***************************************************************************)
\* A 22-byte archive comment that reads as a trailer declaring five comment
\* bytes of its own, with none after it.
false_trailer_comment ==
    Slice(EndOfCentralDirectory(0, U32FromNat(0), U32FromNat(0), << 1, 2, 3, 4, 5 >>), 0, 22)

ZipInputs ==
    { create_test_zip,
      TwoEntryZip(U32FromNat(0), U32FromNat(31), << >>),
      TwoEntryZip(U32FromNat(0), U32FromNat(31), << 104, 105, 33 >>),
      TwoEntryZip(U32FromNat(62), << 0, 255, 255, 255 >>, << >>),
      TwoEntryZip(U32FromNat(0), U32FromNat(31), false_trailer_comment) }

\* offset_adjustment values: 0, 4, 100, u32::MAX and 2^32.
Shifts ==
    { U64FromNat(0), U64FromNat(4), U64FromNat(100),
      [hi |-> << 0, 0, 0, 0 >>, lo |-> U32_MAX],
      [hi |-> << 1, 0, 0, 0 >>, lo |-> << 0, 0, 0, 0 >>] }

IsZeroShift(shift) == shift.hi = << 0, 0, 0, 0 >> /\ shift.lo = << 0, 0, 0, 0 >>

InitZip ==
    /\ overflow_checks \in BOOLEAN
    /\ zip \in {ZipArchive_from_data(d) : d \in ZipInputs}
    /\ IsOk(zip)
    /\ png = NoObject
    /\ file = NoFile
    /\ extracted = NoFile
    /\ last = Call("from_data", << >>, Ok("unit"))
    /\ pre = [png |-> png, zip |-> zip]
    /\ patches = 0
    /\ nops = 0
    /\ wav = NoObject
    /\ constructed = NotConstructed

UpdateOffsets(shift) ==
    /\ Running
    /\ IsOk(zip)
    /\ \E r \in {ZipArchive_update_central_directory_offsets(zip.val, shift, overflow_checks)} :
           /\ zip' = Ok(r.self)
           /\ last' = Call("update_central_directory_offsets", shift, r.res)
           /\ patches' = IF IsOk(r.res) /\ ~IsZeroShift(shift) THEN patches + 1 ELSE patches
    /\ pre' = [png |-> png, zip |-> zip]
    /\ nops' = nops + 1
    /\ UNCHANGED << overflow_checks, png, file, extracted, wav, constructed >>

NextZip == \E shift \in Shifts : UpdateOffsets(shift)

SpecZip == InitZip /\ [][NextZip]_vars

(***************************************************************************)
(* What the claims about the offset patch speak of                         *)
(***************************************************************************)
\* The offsets of the directory entries of `data`, walked from `offset` the way
\* the patch walks them: an entry is 46 bytes and its three variable fields.
RECURSIVE DirectoryEntries(_, _)
DirectoryEntries(data, offset) ==
    IF ~(offset + 46 <= Len(data)) THEN << >>
    ELSE IF read_u32_le(data, offset) # CD_SIG THEN << >>
    ELSE << offset >> \o DirectoryEntries(data,
             offset + 46 + read_u16_le(data, offset + 28)
                 + read_u16_le(data, offset + 30) + read_u16_le(data, offset + 32))

local_header_offset(data, entry) == read_u32_le(data, entry + 42)

\* The entries of the archive as it was before the last call.
PreEntries ==
    DirectoryEntries(pre.zip.val.data, U32ToUsize(pre.zip.val.eocd.cd_offset))

IsPatchCall == last.op = "update_central_directory_offsets"

\* x + shift does not fit 32 bits.
Exceeds32(x, shift) == shift.hi # << 0, 0, 0, 0 >> \/ AddU32(x, shift.lo).overflow

\* C3: after a successful offset patch by shift > 0, every directory entry's
\* local_header_offset is its original value plus shift (entries whose offset
\* is below the directory offset included).
C3_EveryEntryShifted ==
    (IsPatchCall /\ IsOk(last.res) /\ ~IsZeroShift(last.arg)) =>
        \A i \in 1..Len(PreEntries) :
            LET was == local_header_offset(pre.zip.val.data, PreEntries[i])
            IN  /\ ~Exceeds32(was, last.arg)
                /\ local_header_offset(zip.val.data, PreEntries[i])
                       = AddU32(was, last.arg.lo).sum

\* C4: after a successful offset patch, the cached eocd.cd_offset is the original
\* directory offset plus shift, and the four bytes at eocd_offset + 16 of the
\* buffer hold that value, little-endian.
C4_TrailerOffsetPatched ==
    (IsPatchCall /\ IsOk(last.res)) =>
        /\ ~Exceeds32(pre.zip.val.eocd.cd_offset, last.arg)
        /\ zip.val.eocd.cd_offset = AddU32(pre.zip.val.eocd.cd_offset, last.arg.lo).sum
        /\ read_u32_le(zip.val.data, zip.val.eocd_offset + 16) = zip.val.eocd.cd_offset

\* C5: when an entry's local_header_offset + shift or the directory offset +
\* shift does not fit 32 bits, the offset patch returns an error (it does not
\* abort) and has written nothing.
C5_OverflowRejected ==
    (/\ IsPatchCall
     /\ \/ Exceeds32(pre.zip.val.eocd.cd_offset, last.arg)
        \/ \E i \in 1..Len(PreEntries) :
               Exceeds32(local_header_offset(pre.zip.val.data, PreEntries[i]), last.arg))
    => (IsErr(last.res) /\ zip = pre.zip)

\* C6: an offset patch made after a patch that was already applied is rejected
\* or leaves the archive as the first patch left it: the offsets are never
\* shifted twice.
C6_PatchedOnce ==
    (IsPatchCall /\ IsOk(last.res) /\ patches >= 2) => zip = pre.zip

\* C28: in an archive from_data has accepted, and after every successful
\* offset patch of it, eocd_offset is the offset of the trailer the cached eocd
\* was read from, and the trailer find_eocd locates in the buffer is the cached
\* eocd: the directory offset stored there is the cached cd_offset.
C28_TrailerCoherent ==
    (last.op = "from_data" \/ (IsPatchCall /\ IsOk(last.res))) =>
        /\ EocdAt(zip.val.data, zip.val.eocd_offset) = zip.val.eocd
        /\ find_eocd(zip.val.data) = Ok(zip.val.eocd)
        /\ find_eocd(zip.val.data).val.cd_offset = zip.val.eocd.cd_offset

(***************************************************************************)
(* SpecPng: one PngFile built by PngFile::from_data and the calls of        *)
(* append_to_idat and add_zip_text_chunk on it.                             *)
(***************************************************************************)
PngInputs ==
    { create_test_png, two_idat_png, no_idat_png, iend_text_png, no_iend_png,
      trailing_png, bad_crc_png }

\* The bytes handed to the two calls: nothing, one byte, the text "IEND", and
\* the first bytes of an archive.
Payloads == { << >>, << 7 >>, IEND, ZIP_SIG \o << 10, 0 >> }

InitPng ==
    /\ overflow_checks \in BOOLEAN
    /\ png \in {PngFile_from_data(d) : d \in PngInputs}
    /\ zip = NoObject
    /\ file = NoFile
    /\ extracted = NoFile
    /\ last = Call("from_data", << >>, IF IsOk(png) THEN Ok("unit") ELSE png)
    /\ pre = [png |-> png, zip |-> zip]
    /\ patches = 0
    /\ nops = 0
    /\ wav = NoObject
    /\ constructed = NotConstructed

AppendToIdat(additional_data) ==
    /\ Running
    /\ IsOk(png)
    /\ \E r \in {append_to_idat(png.val, additional_data)} :
           /\ png' = Ok(r.self)
           /\ last' = Call("append_to_idat", additional_data, r.res)
    /\ pre' = [png |-> png, zip |-> zip]
    /\ nops' = nops + 1
    /\ UNCHANGED << overflow_checks, zip, file, extracted, patches, wav, constructed >>

AddZipTextChunk(zip_data) ==
    /\ Running
    /\ IsOk(png)
    /\ \E r \in {add_zip_text_chunk(png.val, zip_data)} :
           /\ png' = Ok(r.self)
           /\ last' = Call("add_zip_text_chunk", zip_data, r.res)
    /\ pre' = [png |-> png, zip |-> zip]
    /\ nops' = nops + 1
    /\ UNCHANGED << overflow_checks, zip, file, extracted, patches, wav, constructed >>

NextPng ==
    \/ \E additional_data \in Payloads : AppendToIdat(additional_data)
    \/ \E zip_data \in Payloads : AddZipTextChunk(zip_data)

SpecPng == InitPng /\ [][NextPng]_vars

\* The chunks stored in `data` from `offset` on, up to and including the first
\* IEND chunk: each with its type, payload and stored checksum, read from the
\* bytes alone.
RECURSIVE StoredChunks(_, _)
StoredChunks(data, offset) ==
    IF offset + 12 > Len(data) THEN << >>
    ELSE LET size == U32ToUsize(read_u32_be(data, offset))
             chunk == [at |-> offset,
                       chunk_type |-> Slice(data, offset + 4, offset + 8),
                       payload |-> Slice(data, offset + 8, offset + 8 + size),
                       stored |-> read_u32_be(data, offset + 8 + size)]
         IN  IF offset + 12 + size > Len(data) THEN << >>
             ELSE IF chunk.chunk_type = IEND THEN << chunk >>
             ELSE << chunk >> \o StoredChunks(data, offset + 12 + size)

ChunksOf(data) == IF is_png_signature(data) THEN StoredChunks(data, 8) ELSE << >>

\* The index of the first IDAT chunk among the chunks stored in container c.
FirstIdatIndex(c) == MinOf({k \in 1..Len(ChunksOf(c)) : ChunksOf(c)[k].chunk_type = IDAT})

ChecksumHolds(chunk) ==
    chunk.stored = calculate_crc32(chunk.chunk_type \o chunk.payload)

ChunksFramed ==
    LET was == pre.png.val.parsed.chunks
        now == png.val.parsed.chunks
    IN  /\ Len(now) = Len(was)
        /\ \A i \in 1..Len(was) :
               /\ now[i].chunk_type = was[i].chunk_type
               /\ IF i = MinOf({k \in 1..Len(was) : was[k].chunk_type = IDAT})
                  THEN /\ now[i].data = was[i].data \o last.arg
                       /\ now[i].length = U32FromNat(Len(was[i].data) + Len(last.arg))
                  ELSE /\ now[i].data = was[i].data
                       /\ now[i].crc = was[i].crc

\* C25: the frame of append_to_idat(x): the chunks as above, and the buffer is
\* longer by exactly the length of x.
C25_AppendFrame ==
    (last.op = "append_to_idat" /\ IsOk(last.res)) =>
        /\ ChunksFramed
        /\ Len(png.val.raw_data) = Len(pre.png.val.raw_data) + Len(last.arg)

\* The PngFile is one from_data could have returned: its chunk list is the
\* parse of its raw_data, and the list ends with the IEND chunk.
ValidContainer(self) ==
    /\ parse_png_chunks(self.raw_data) = Ok(self.parsed)
    /\ self.parsed.chunks[Len(self.parsed.chunks)].chunk_type = IEND

\* C26: add_zip_text_chunk on a valid container, whatever its payloads hold,
\* succeeds; the chunk list is then the old one with one tEXt chunk more, put
\* just before the IEND chunk, whose payload is the keyword, a zero byte and the
\* archive and whose checksum is the CRC-32 of its type and payload; the chunks
\* before it and the IEND chunk are as they were.
C26_TextChunkBeforeTerminal ==
    (last.op = "add_zip_text_chunk" /\ ValidContainer(pre.png.val)) =>
        /\ IsOk(last.res)
        /\ LET was == pre.png.val.parsed.chunks
               now == png.val.parsed.chunks
               n == Len(pre.png.val.parsed.chunks)
           IN  /\ Len(now) = n + 1
               /\ \A i \in 1..(n - 1) :
                      /\ now[i].chunk_type = was[i].chunk_type
                      /\ now[i].data = was[i].data
                      /\ now[i].crc = was[i].crc
               /\ now[n].chunk_type = << 116, 69, 88, 116 >>
               /\ now[n].data
                      = << 90, 73, 80, 32, 65, 114, 99, 104, 105, 118, 101, 0 >> \o last.arg
               /\ now[n].crc = calculate_crc32(now[n].chunk_type \o now[n].data)
               /\ now[n + 1].chunk_type = was[n].chunk_type
               /\ now[n + 1].data = was[n].data
               /\ now[n + 1].crc = was[n].crc

\* C30: after every append_to_idat and add_zip_text_chunk that returns, with
\* success or with an error, the chunk list in `parsed` is the parse of
\* raw_data; and a call that returns an error leaves raw_data and parsed as
\* they were before it.
C30_BufferViewCoherent ==
    (last.op \in {"append_to_idat", "add_zip_text_chunk"} /\ ~IsPanic(last.res)) =>
        /\ parse_png_chunks(png.val.raw_data) = Ok(png.val.parsed)
        /\ IsErr(last.res) => png = pre.png

(***************************************************************************)
(* SpecParse: PngFile::from_file on a file that holds a serialized          *)
(* container, a damaged copy of one, or something else.                     *)
(***************************************************************************)
Containers == { create_test_png, iend_text_png }

\* The offsets of the payload, type and stored-checksum bytes of the chunks of c.
PayloadOffsets(c) ==
    {k \in 0..(Len(c) - 1) : \E i \in 1..Len(ChunksOf(c)) :
        LET ch == ChunksOf(c)[i]
        IN  k >= ch.at + 8 /\ k < ch.at + 8 + Len(ch.payload)}

TypeOffsets(c) == {ChunksOf(c)[i].at + 4 : i \in 1..Len(ChunksOf(c))}

ChecksumOffsets(c) ==
    {ChunksOf(c)[i].at + 8 + Len(ChunksOf(c)[i].payload) + 3 : i \in 1..Len(ChunksOf(c))}

\* Every container with one payload byte changed (one bit, or all eight).
PayloadMutants ==
    UNION {{FlipByte(c, k, mask) : k \in PayloadOffsets(c), mask \in {1, 255}} : c \in Containers}

\* Every container with the first byte of one chunk type changed (to lower case,
\* or to a byte that is not ASCII), or with the last byte of one stored checksum
\* changed.
FramingMutants ==
    UNION {{FlipByte(c, k, mask) : k \in TypeOffsets(c), mask \in {32, 128}}
               \cup {FlipByte(c, k, 1) : k \in ChecksumOffsets(c)} : c \in Containers}

\* The intact containers; one followed by a chunk whose stored checksum is wrong
\* (after the IEND chunk); one cut inside a stored checksum; one without its
\* signature; one with two damaged chunks.
OtherBuffers ==
    Containers \cup
    { create_test_png \o FlipByte(MkChunk(tEXt, << 97 >>), 8, 1),
      Slice(create_test_png, 0, 31),
      SliceFrom(create_test_png, 1),
      FlipByte(FlipByte(create_test_png, 20, 4), 45, 4) }

\* The tests' container cut short: inside the header of the IHDR chunk; inside
\* the IHDR payload; two bytes into the IDAT payload (fewer than 12 bytes of the
\* chunk are left); nine bytes into the IDAT payload.
TruncatedBuffers ==
    { Slice(create_test_png, 0, 15), Slice(create_test_png, 0, 20),
      Slice(create_test_png, 0, 43), Slice(create_test_png, 0, 50) }

ParseInputs == PayloadMutants \cup FramingMutants \cup OtherBuffers \cup TruncatedBuffers

InitParse ==
    /\ overflow_checks \in BOOLEAN
    /\ file \in {FileOf(d) : d \in ParseInputs}
    /\ png = NoObject
    /\ zip = NoObject
    /\ extracted = NoFile
    /\ last = Call("start", << >>, Ok("unit"))
    /\ pre = [png |-> png, zip |-> zip]
    /\ patches = 0
    /\ nops = 0
    /\ wav = NoObject
    /\ constructed = NotConstructed

\* PngFile::from_file(path): read the file, parse it.
FromFile ==
    /\ Running
    /\ png = NoObject
    /\ png' = PngFile_from_data(file.data)
    /\ last' = Call("from_file", file.data, parse_png_chunks(file.data))
    /\ pre' = [png |-> png, zip |-> zip]
    /\ nops' = nops + 1
    /\ UNCHANGED << overflow_checks, zip, file, extracted, patches, wav, constructed >>

NextParse == FromFile

SpecParse == InitParse /\ [][NextParse]_vars

\* The chunks of `data`, up to and including the first IEND chunk, whose stored
\* checksum is not the CRC-32 of their type and payload.
BadChunks(data) ==
    {i \in 1..Len(ChunksOf(data)) : ~ChecksumHolds(ChunksOf(data)[i])}

\* C8: parse_png_chunks rejects with CrcMismatch, naming the type of the chunk,
\* every buffer in which a chunk at or before the first IEND chunk stores a
\* checksum other than the CRC-32 of its type and payload; in particular a
\* serialized container with one payload byte changed is rejected so.
C8_BadChecksumRejected ==
    last.op = "from_file" =>
        /\ BadChunks(file.data) # {} =>
               last.res = Err("CrcMismatch",
                   from_utf8_lossy(ChunksOf(file.data)[MinOf(BadChunks(file.data))].chunk_type))
        /\ file.data \in PayloadMutants =>
               (IsErr(last.res) /\ last.res.kind = "CrcMismatch")

\* A container with one payload byte of its IDAT chunk changed has been parsed.
C8_Witness ==
    /\ last.op = "from_file"
    /\ file.data \in PayloadMutants
    /\ BadChunks(file.data) = {2}
    /\ last.res = Err("CrcMismatch", IDAT)

\* Some chunk of `data` from `offset` on, at or before the first IEND chunk,
\* has its 8-byte header in the buffer and declares a length greater than the
\* number of bytes that follow the header.
RECURSIVE DeclaresTooMuch(_, _)
DeclaresTooMuch(data, offset) ==
    IF offset + 8 > Len(data) THEN FALSE
    ELSE IF U32ToUsize(read_u32_be(data, offset)) > Len(data) - (offset + 8) THEN TRUE
    ELSE IF Slice(data, offset + 4, offset + 8) = IEND THEN FALSE
    ELSE DeclaresTooMuch(data, offset + 12 + U32ToUsize(read_u32_be(data, offset)))

\* C16: parse_png_chunks returns a parse error for every buffer that does not
\* begin with the 8-byte signature, and for every buffer in which a chunk at or
\* before the terminal chunk declares a length greater than the bytes left
\* after its header; it returns no successful parse that leaves such a chunk
\* out.
C16_TruncationRejected ==
    last.op = "from_file" =>
        /\ ~(Len(file.data) >= 8 /\ Slice(file.data, 0, 8) = PNG_SIGNATURE) =>
               (IsErr(last.res) /\ last.res.kind = "PngParse")
        /\ (/\ Len(file.data) >= 8 /\ Slice(file.data, 0, 8) = PNG_SIGNATURE
            /\ DeclaresTooMuch(file.data, 8)) => IsErr(last.res)

(***************************************************************************)
(* Spec: one PolyglotCreator built by PolyglotCreator::from_data, the       *)
(* creation calls on it, and validation and extraction of the file they     *)
(* write.                                                                   *)
(***************************************************************************)
CreatorPngs == { create_test_png, two_idat_png, no_idat_png, iend_text_png, no_iend_png }

\* One-entry archives that hold the reserved value 0xFFFFFFFF: in the trailer's
\* directory size, and in the sizes of the directory entry.
sentinel_trailer_zip ==
    LocalFileHeader(test_name, Zeros(4), Zeros(4))
        \o CentralDirectoryHeader(<< 10, 0 >>, test_name, Zeros(4), Zeros(4), Zeros(4))
        \o EndOfCentralDirectory(1, U32_MAX, U32FromNat(34), << >>)

sentinel_entry_zip ==
    LocalFileHeader(test_name, Zeros(4), Zeros(4))
        \o CentralDirectoryHeader(<< 10, 0 >>, test_name, Zeros(4), U32_MAX, Zeros(4))
        \o EndOfCentralDirectory(1, U32FromNat(50), U32FromNat(34), << >>)

CreatorZips ==
    { create_test_zip,
      TwoEntryZip(U32FromNat(0), U32FromNat(31), << >>),
      TwoEntryZip(U32FromNat(62), << 0, 255, 255, 255 >>, << >>),
      sentinel_trailer_zip, sentinel_entry_zip }

\* "bmp" stands for every method name that is not one of the three.
Methods == { "zip", "idat", "text", "bmp" }

Init ==
    /\ overflow_checks \in BOOLEAN
    /\ \E c \in CreatorPngs, a \in CreatorZips :
           LET creator == PolyglotCreator_from_data(c, a)
           IN  /\ IsOk(creator)
               /\ png = Ok(creator.val.png)
               /\ zip = Ok(creator.val.zip)
               /\ constructed = [png |-> c, zip |-> a, wav |-> << >>]
    /\ file = NoFile
    /\ extracted = NoFile
    /\ last = Call("from_data", << >>, Ok("unit"))
    /\ pre = [png |-> png, zip |-> zip]
    /\ patches = 0
    /\ nops = 0
    /\ wav = NoObject

\* After a call that left the creator as `self`.
CreatorAfter(self) ==
    /\ png' = Ok(self.png)
    /\ zip' = Ok(self.zip)
    /\ patches' = IF self.zip.eocd.cd_offset # zip.val.eocd.cd_offset
                  THEN patches + 1 ELSE patches
    /\ pre' = [png |-> png, zip |-> zip]
    /\ nops' = nops + 1

CreatePolyglotWithMethod(method) ==
    /\ Running
    /\ IsOk(png) /\ IsOk(zip)
    /\ \E r \in {create_polyglot_with_method([png |-> png.val, zip |-> zip.val],
                                            method, overflow_checks)} :
           /\ CreatorAfter(r.self)
           /\ file' = IF r.wrote
                      THEN [exists |-> TRUE, data |-> r.written,
                            origin |-> [method |-> method, png |-> png.val.raw_data,
                                        zip |-> zip.val.data]]
                      ELSE file
           /\ last' = Call("create_polyglot_with_method", method, r.res)
    /\ UNCHANGED << overflow_checks, extracted, wav, constructed >>

CreatePolyglotInMemory ==
    /\ Running
    /\ IsOk(png) /\ IsOk(zip)
    /\ \E r \in {create_polyglot_in_memory([png |-> png.val, zip |-> zip.val], overflow_checks)} :
           /\ CreatorAfter(r.self)
           /\ last' = Call("create_polyglot_in_memory", << >>, r.res)
    /\ UNCHANGED << overflow_checks, file, extracted, wav, constructed >>

ExtractZipFromPng ==
    /\ Running
    /\ \E r \in {extract_zip_from_png(file)} :
           /\ extracted' = IF r.wrote
                           THEN [exists |-> TRUE, data |-> r.written, origin |-> file.origin]
                           ELSE extracted
           /\ last' = [op |-> "extract_zip_from_png", arg |-> file, res |-> r.res,
                       dominant |-> r.dominant]
    /\ pre' = [png |-> png, zip |-> zip]
    /\ nops' = nops + 1
    /\ UNCHANGED << overflow_checks, png, zip, file, patches, wav, constructed >>

ExtractWavFromPng ==
    /\ Running
    /\ \E r \in {extract_wav_from_png(file)} :
           /\ extracted' = IF r.wrote
                           THEN [exists |-> TRUE, data |-> r.written, origin |-> file.origin]
                           ELSE extracted
           /\ last' = Call("extract_wav_from_png", file, r.res)
    /\ pre' = [png |-> png, zip |-> zip]
    /\ nops' = nops + 1
    /\ UNCHANGED << overflow_checks, png, zip, file, patches, wav, constructed >>

ValidatePolyglot ==
    /\ Running
    /\ \E r \in {validate_polyglot(file)} :
           last' = [op |-> "validate_polyglot", arg |-> file, res |-> r.res,
                    dominant |-> r.dominant]
    /\ pre' = [png |-> png, zip |-> zip]
    /\ nops' = nops + 1
    /\ UNCHANGED << overflow_checks, png, zip, file, extracted, patches, wav, constructed >>

Next ==
    \/ \E method \in Methods : CreatePolyglotWithMethod(method)
    \/ CreatePolyglotInMemory
    \/ ExtractZipFromPng
    \/ ExtractWavFromPng
    \/ ValidatePolyglot

Spec == Init /\ [][Next]_vars

(***************************************************************************)
(* What the claims about the creation methods speak of                     *)
(***************************************************************************)
IsCreateCall(method) == last.op = "create_polyglot_with_method" /\ last.arg = method

\* The bytes "IEND" occur in container c first as the type of its IEND chunk.
IendFirstInIendChunk(c) ==
    /\ ChunksOf(c) # << >>
    /\ ChunksOf(c)[Len(ChunksOf(c))].chunk_type = IEND
    /\ WindowsPosition(c, IEND) = ChunksOf(c)[Len(ChunksOf(c))].at + 4

\* C1: extract_zip_from_png on a file written by the text method succeeds and
\* writes exactly the bytes of the archive the file was made from, and the file
\* parses as a container.
C1_TextRoundTrip ==
    (last.op = "extract_zip_from_png" /\ last.arg.origin.method = "text") =>
        /\ IsOk(last.res)
        /\ extracted.data = last.arg.origin.zip
        /\ IsOk(parse_png_chunks(last.arg.data))

C10_OuterMagicFirst ==
    /\ (last.op = "create_polyglot_with_method" /\ IsOk(last.res)) =>
           /\ last.arg \in {"idat", "text", "zip"}
           /\ last.arg \in {"idat", "text"} =>
                  (/\ Len(file.data) >= 8
                   /\ Slice(file.data, 0, 8) = << 137, 80, 78, 71, 13, 10, 26, 10 >>)
           /\ last.arg = "zip" =>
                  (/\ Len(file.data) >= 4
                   /\ Slice(file.data, 0, 4) = << 80, 75, 3, 4 >>)
    /\ (last.op = "create_polyglot_in_memory" /\ IsOk(last.res)) =>
           (/\ Len(last.res.val) >= 8
            /\ Slice(last.res.val, 0, 8) = << 137, 80, 78, 71, 13, 10, 26, 10 >>)

\* A zip creation has succeeded after an idat creation that wrote a file
\* beginning with the container signature.
C10_Witness ==
    /\ nops = 2
    /\ IsCreateCall("zip") /\ IsOk(last.res)
    /\ file.origin.method = "zip"
    /\ Slice(file.data, 0, 4) = ZIP_SIG
    /\ patches = 1

\* The offset in container c of the byte after the payload of its first IDAT
\* chunk: where the idat method puts the first byte of the archive.
ArchiveStart(c) ==
    ChunksOf(c)[FirstIdatIndex(c)].at + 8 + Len(ChunksOf(c)[FirstIdatIndex(c)].payload)

\* C17: after a successful idat creation the archive lies in the output at the
\* offset of the first IDAT payload plus the original payload length, the shift
\* applied to the directory offset is that offset, and data_offset of the first
\* IDAT chunk is the offset of its first payload byte.
C17_ShiftIsArchiveStart ==
    (IsCreateCall("idat") /\ IsOk(last.res)) =>
        /\ Slice(file.data, ArchiveStart(pre.png.val.raw_data),
                 ArchiveStart(pre.png.val.raw_data) + Len(zip.val.data)) = zip.val.data
        /\ zip.val.eocd.cd_offset
               = AddU32(pre.zip.val.eocd.cd_offset,
                        U32FromNat(ArchiveStart(pre.png.val.raw_data))).sum
        /\ pre.png.val.parsed.chunks[FirstIdatIndex(pre.png.val.raw_data)].data_offset
               = ChunksOf(pre.png.val.raw_data)[FirstIdatIndex(pre.png.val.raw_data)].at + 8

\* In an archive `out` of one entry and no comment (local header, payload,
\* directory entry, 22-byte trailer): the offset of the trailer and of the
\* directory entry, the name length being the one the local header declares.
TrailerOf(out) == Len(out) - 22

OnlyEntryOf(out) == TrailerOf(out) - (46 + read_u16_le(out, 26))

\* C18: in the file a successful zip creation writes, the directory entry's
\* local_header_offset is 0, the offset of the local file header that carries
\* the entry's name, and the sizes the header and the entry declare are the
\* container's length.
C18_EntryPointsAtHeader ==
    (IsCreateCall("zip") /\ IsOk(last.res)) =>
        /\ read_u32_le(file.data, 0) = ZIP_SIG
        /\ read_u32_le(file.data, OnlyEntryOf(file.data)) = CD_SIG
        /\ Slice(file.data, OnlyEntryOf(file.data) + 46, TrailerOf(file.data))
               = Slice(file.data, 30, 30 + read_u16_le(file.data, 26))
        /\ local_header_offset(file.data, OnlyEntryOf(file.data)) = U32FromNat(0)
        /\ \A at \in {18, 22, OnlyEntryOf(file.data) + 20, OnlyEntryOf(file.data) + 24} :
               read_u32_le(file.data, at) = U32FromNat(Len(pre.png.val.raw_data))

\* C19: in the file a successful zip creation writes, the trailer's directory
\* offset is the offset of the directory entry and its directory size is the
\* length of the entry, 46 plus the name length, without any trailer byte.
C19_TrailerDescribesDirectory ==
    (IsCreateCall("zip") /\ IsOk(last.res)) =>
        /\ read_u32_le(file.data, TrailerOf(file.data)) = EOCD_SIG
        /\ read_u32_le(file.data, OnlyEntryOf(file.data)) = CD_SIG
        /\ read_u32_le(file.data, TrailerOf(file.data) + 16)
               = U32FromNat(OnlyEntryOf(file.data))
        /\ read_u32_le(file.data, TrailerOf(file.data) + 12)
               = U32FromNat(46 + read_u16_le(file.data, 26))

\* The archive `data` (whose trailer find_eocd locates) holds the reserved
\* value 0xFFFF in an entry count of its trailer, or 0xFFFFFFFF in the directory
\* size or offset of its trailer or in a size or the local header offset of a
\* directory entry.
HoldsSentinel(data) ==
    \/ find_eocd(data).val.num_entries_disk = 65535
    \/ find_eocd(data).val.num_entries_total = 65535
    \/ find_eocd(data).val.cd_size = << 255, 255, 255, 255 >>
    \/ find_eocd(data).val.cd_offset = << 255, 255, 255, 255 >>
    \/ \E i \in 1..Len(DirectoryEntries(data, U32ToUsize(find_eocd(data).val.cd_offset))) :
           \E at \in {20, 24, 42} :
               read_u32_le(data,
                   DirectoryEntries(data, U32ToUsize(find_eocd(data).val.cd_offset))[i] + at)
                   = << 255, 255, 255, 255 >>

\* C20: ZipArchive::from_data does not succeed on an archive that holds the
\* reserved value in a trailer or directory-entry field, and no file a creation
\* method writes was made from such an archive.
C20_SentinelRejected ==
    /\ (last.op = "from_data" /\ IsOk(last.res)) => ~HoldsSentinel(zip.val.data)
    /\ (last.op = "create_polyglot_with_method" /\ IsOk(last.res)) =>
           ~HoldsSentinel(file.origin.zip)

\* The offset in `data` of the trailer find_eocd(data) returns: the greatest
\* offset the backward scan accepts.
TrailerPlace(data) ==
    MaxOf({offset \in 1..(Len(data) - 22) :
              /\ read_u32_le(data, offset) = EOCD_SIG
              /\ read_u16_le(data, offset + 20) <= Len(data) - offset - 22})

\* The bytes of `data` from the first local file header signature after the
\* container signature on: where extraction takes the archive to start.
ArchiveSlice(data) == SliceFrom(data, 8 + find_zip_signature(SliceFrom(data, 8)))

\* C21: when extract_zip_from_png succeeds on a container-first file and the
\* trailer of the embedded archive is located, the bytes written end at the end
\* of that trailer (its offset + 22 + its comment length from the archive's
\* start): no byte of the container after the archive is written.
C21_ExtractEndsAtTrailer ==
    (/\ last.op = "extract_zip_from_png" /\ last.dominant = "png" /\ IsOk(last.res)
     /\ IsOk(find_eocd(ArchiveSlice(last.arg.data)))) =>
        extracted.data
            = Slice(ArchiveSlice(last.arg.data), 0,
                    TrailerPlace(ArchiveSlice(last.arg.data)) + 22
                        + find_eocd(ArchiveSlice(last.arg.data)).val.comment_length)

\* C22: extract_zip_from_png on a file written by the zip method succeeds and
\* writes exactly the bytes of the container the file was made from, as many as
\* the size the local file header declares: no directory or trailer byte.
C22_ZipRoundTrip ==
    (last.op = "extract_zip_from_png" /\ last.arg.origin.method = "zip") =>
        /\ IsOk(last.res)
        /\ extracted.data = last.arg.origin.png
        /\ U32FromNat(Len(extracted.data)) = read_u32_le(last.arg.data, 22)

\* C23: a call that does not succeed (a creation with any method name, an
\* archive extraction or a WAV extraction that returns an error or aborts)
\* leaves the output file and the extracted file as they were: a file is
\* written only by a call whose every step has succeeded.
C23_NoPartialOutput ==
    [][~IsOk(last'.res) => (file' = file /\ extracted' = extracted)]_vars

\* An idat creation has returned an error after a text creation wrote a file,
\* and the file still holds what the text creation wrote.
C23_Witness ==
    /\ nops = 2
    /\ IsCreateCall("idat") /\ IsErr(last.res)
    /\ file.exists /\ file.origin.method = "text"
    /\ file.data = pre.png.val.raw_data
    /\ ~extracted.exists

\* The payloads of the tEXt chunks of chunk list `chunks` that begin with the
\* keyword "ZIP Archive" and a zero byte, without these 12 bytes.
WrappedArchives(chunks) ==
    {SliceFrom(chunks[i].data, 12) :
        i \in {k \in 1..Len(chunks) :
                  /\ chunks[k].chunk_type = << 116, 69, 88, 116 >>
                  /\ Len(chunks[k].data) >= 12
                  /\ Slice(chunks[k].data, 0, 12)
                         = << 90, 73, 80, 32, 65, 114, 99, 104, 105, 118, 101, 0 >>}}

\* C29: after a successful text creation, whatever calls were made on the
\* creator before it, the archive wrapped in the tEXt chunk of the file is byte
\* for byte the archive the creator was constructed with.
C29_TextArchiveNeverShifted ==
    (IsCreateCall("text") /\ IsOk(last.res)) =>
        WrappedArchives(parse_png_chunks(file.data).val.chunks) = {constructed.zip}

(***************************************************************************)
(* SpecFiles: validate_polyglot and extract_zip_from_png on a file that    *)
(* begins with one of the two signatures, or with neither.                 *)
(***************************************************************************)
DominanceBuffers ==
    { PNG_SIGNATURE,
      PNG_SIGNATURE \o ZIP_SIG,
      PNG_SIGNATURE \o create_test_zip,
      create_test_png,
      create_test_png \o create_test_zip,
      ZIP_SIG,
      ZIP_SIG \o PNG_SIGNATURE,
      create_test_zip,
      create_test_zip \o PNG_SIGNATURE,
      ZIP_SIG \o create_test_png,
      << >>,
      Slice(PNG_SIGNATURE, 0, 7),
      Slice(ZIP_SIG, 0, 3),
      SliceFrom(create_test_png, 1) }

InitFiles ==
    /\ overflow_checks \in BOOLEAN
    /\ file \in {FileOf(d) : d \in DominanceBuffers} \cup {NoFile}
    /\ png = NoObject
    /\ zip = NoObject
    /\ extracted = NoFile
    /\ last = Call("start", << >>, Ok("unit"))
    /\ pre = [png |-> png, zip |-> zip]
    /\ patches = 0
    /\ nops = 0
    /\ wav = NoObject
    /\ constructed = NotConstructed

NextFiles ==
    \/ ExtractZipFromPng
    \/ ValidatePolyglot

SpecFiles == InitFiles /\ [][NextFiles]_vars

IsDominanceCall == last.op \in {"extract_zip_from_png", "validate_polyglot"}

\* C9: validate_polyglot and extract_zip_from_png take the container-first
\* branch for every file whose first 8 bytes are the container signature,
\* whatever follows (nothing included), and the archive-first branch for every
\* file whose first 4 bytes are the local file header signature.
C9_DominanceDetected ==
    (IsDominanceCall /\ last.arg.exists) =>
        /\ (Len(last.arg.data) >= 8 /\ Slice(last.arg.data, 0, 8) = PNG_SIGNATURE)
               => last.dominant = "png"
        /\ (Len(last.arg.data) >= 4 /\ Slice(last.arg.data, 0, 4) = ZIP_SIG)
               => last.dominant = "zip"

\* The container signature followed by an archive has been validated as
\* container-first, and found to be neither a container nor to hold an archive.
C9_Witness ==
    /\ last.op = "validate_polyglot"
    /\ last.arg.data = PNG_SIGNATURE \o create_test_zip
    /\ last.dominant = "png"
    /\ IsOk(last.res) /\ last.res.val.tag = "InvalidBoth"

(***************************************************************************)
(* SpecValidate: validate_polyglot and extract_zip_from_png on a polyglot  *)
(* the creation methods produce, on a damaged copy of one, or on a short   *)
(* or cut file.                                                            *)
(***************************************************************************)
\* The bytes the text method writes for container c and archive a.
TextPolyglot(c, a) == add_zip_text_chunk(PngFile_from_data(c).val, a).self.raw_data

\* The bytes the idat method writes for container c and archive a.
IdatPolyglot(c, a) ==
    EmbedInIdat([png |-> PngFile_from_data(c).val, zip |-> ZipArchive_from_data(a).val],
                FALSE).res.val

ValidPolyglots ==
    { TextPolyglot(create_test_png, create_test_zip),
      TextPolyglot(create_test_png, TwoEntryZip(U32FromNat(0), U32FromNat(31), << >>)),
      IdatPolyglot(create_test_png, create_test_zip) }

\* A polyglot with one byte of its 8-byte signature changed, and nothing else.
OuterMagicCorrupted ==
    UNION {{FlipByte(p, k, 1) : k \in 0..7} : p \in ValidPolyglots}

\* A polyglot whose archive has the local_header_offset of its second entry
\* changed from 31 to 77 (77 is not the offset of a local header); the chunk
\* that holds the archive stores the checksum of the changed payload.
EntryOffsetCorrupted ==
    { TextPolyglot(create_test_png, TwoEntryZip(U32FromNat(0), U32FromNat(77), << >>)),
      IdatPolyglot(create_test_png, TwoEntryZip(U32FromNat(0), U32FromNat(77), << >>)) }

\* A polyglot with one bit of the stored checksum of its IHDR chunk changed:
\* the container no longer parses, the archive is intact.
OuterChecksumCorrupted == {FlipByte(p, 29, 1) : p \in ValidPolyglots}

\* Files that are no polyglot: a container with a wrong checksum and no
\* archive; the empty file; files shorter than a signature; a container cut in
\* the middle of a chunk's payload, and cut in the middle of a stored checksum;
\* an archive alone, and cut.
OtherFiles ==
    { bad_crc_png, << >>, Slice(PNG_SIGNATURE, 0, 7), Slice(ZIP_SIG, 0, 3),
      Slice(create_test_png, 0, 25), Slice(create_test_png, 0, 31),
      create_test_png, create_test_zip, Slice(create_test_zip, 0, 40) }

ValidationBuffers ==
    ValidPolyglots \cup OuterMagicCorrupted \cup EntryOffsetCorrupted
        \cup OuterChecksumCorrupted \cup OtherFiles

InitValidate ==
    /\ overflow_checks \in BOOLEAN
    /\ file \in {FileOf(d) : d \in ValidationBuffers}
    /\ png = NoObject
    /\ zip = NoObject
    /\ extracted = NoFile
    /\ last = Call("start", << >>, Ok("unit"))
    /\ pre = [png |-> png, zip |-> zip]
    /\ patches = 0
    /\ nops = 0
    /\ wav = NoObject
    /\ constructed = NotConstructed

NextValidate ==
    \/ ValidatePolyglot
    \/ ExtractZipFromPng

SpecValidate == InitValidate /\ [][NextValidate]_vars

IsValidateCall == last.op = "validate_polyglot"

\* validate_polyglot returned Ok(report) with this tag.
Reported(tag) == IsOk(last.res) /\ last.res.val.tag = tag

\* C11: for a valid container-first polyglot with only its 8-byte signature
\* corrupted, validate_polyglot reports InvalidPng (the outer format alone; the
\* archive is still found and valid), not InvalidBoth.
C11_OuterOnlyReported ==
    (IsValidateCall /\ last.arg.data \in OuterMagicCorrupted) => Reported("InvalidPng")

\* C12: for a valid container-first polyglot in which only one directory
\* entry's local_header_offset of the embedded archive is corrupted (the chunk's
\* checksum kept valid), validate_polyglot reports InvalidZip, never Valid.
C12_InnerOnlyReported ==
    (IsValidateCall /\ last.arg.data \in EntryOffsetCorrupted) => Reported("InvalidZip")

\* C13: an InvalidBoth report of validate_polyglot carries two distinct
\* reasons: the second is never a repeat of the first.
C13_TwoDistinctReasons ==
    (IsValidateCall /\ Reported("InvalidBoth")) =>
        last.res.val.msg[1] # last.res.val.msg[2]

\* C14: for a container-first file whose container does not parse (a chunk with
\* a wrong checksum) but which holds an intact archive, validate_polyglot still
\* finds and parses the archive: it reports the outer failure alone, InvalidPng.
C14_InnerCheckedIndependently ==
    (IsValidateCall /\ last.arg.data \in OuterChecksumCorrupted) => Reported("InvalidPng")

\* C15: for every file that can be read, validate_polyglot returns one of the
\* four reports Valid, InvalidPng, InvalidZip, InvalidBoth; it returns no error
\* and does not abort.
C15_ValidateTotal ==
    (IsValidateCall /\ last.arg.exists) =>
        (/\ IsOk(last.res)
         /\ last.res.val.tag \in {"Valid", "InvalidPng", "InvalidZip", "InvalidBoth"})

(***************************************************************************)
(* SpecWav: one PngWavPolyglotCreator built from a container and a WAV     *)
(* file, its create_polyglot, and extract_wav_from_png on the file at the  *)
(* output path.                                                            *)
(***************************************************************************)
\* A WAV file as the tests build theirs: the RIFF header with its size field,
\* "WAVE", a 16-byte fmt chunk (PCM, mono, 44100 Hz, 16 bit) and a data chunk
\* of four bytes.
WavBytes(file_size, samples) ==
    RIFF_SIG \o to_le_bytes(file_size) \o << 87, 65, 86, 69 >>
        \o << 102, 109, 116, 32 >> \o to_le_bytes(U32FromNat(16))
        \o << 1, 0 >> \o << 1, 0 >> \o to_le_bytes(U32FromNat(44100))
        \o to_le_bytes(U32FromNat(88200)) \o << 2, 0 >> \o << 16, 0 >>
        \o << 100, 97, 116, 97 >> \o to_le_bytes(U32FromNat(4)) \o samples

create_test_wav == WavBytes(U32FromNat(40), << 0, 0, 0, 0 >>)

\* The tests' WAV, one with other samples, and one with two bytes after the
\* data chunk that its size field does not count.
WavInputs ==
    { create_test_wav,
      WavBytes(U32FromNat(40), << 1, 2, 3, 4 >>),
      create_test_wav \o << 0, 0 >> }

\* A container with a tEXt chunk before the image data whose payload is "a", a
\* zero byte, "RIFF" and `rest`.
riff_text_png(rest) ==
    PNG_SIGNATURE \o MkChunk(IHDR, ihdr_data) \o MkChunk(tEXt, << 97, 0 >> \o RIFF_SIG \o rest)
        \o MkChunk(IDAT, idat_data) \o MkChunk(IEND, << >>)

WavContainers ==
    { create_test_png, two_idat_png, no_idat_png,
      riff_text_png(<< >>), riff_text_png(<< 4, 0, 0, 0 >>) }

\* The file at the output path before the first call: none, a WAV file, or a
\* file of two bytes.
WavFilesBefore == { NoFile, FileOf(create_test_wav), FileOf(<< 82, 73 >>) }

InitWav ==
    /\ overflow_checks \in BOOLEAN
    /\ \E c \in WavContainers, w \in WavInputs :
           /\ png = PngFile_from_data(c)
           /\ IsOk(png)
           /\ wav = Ok([raw_data |-> w])
           /\ constructed = [png |-> c, zip |-> << >>, wav |-> w]
    /\ zip = NoObject
    /\ file \in WavFilesBefore
    /\ extracted = NoFile
    /\ last = Call("from_file", << >>, Ok("unit"))
    /\ pre = [png |-> png, zip |-> zip]
    /\ patches = 0
    /\ nops = 0

CreatePngWavPolyglot ==
    /\ Running
    /\ IsOk(png) /\ IsOk(wav)
    /\ \E r \in {PngWavPolyglotCreator_create_polyglot([png |-> png.val, wav |-> wav.val])} :
           /\ png' = Ok(r.self.png)
           /\ file' = IF r.wrote
                      THEN [exists |-> TRUE, data |-> r.written,
                            origin |-> [method |-> "wav", png |-> png.val.raw_data,
                                        zip |-> << >>, wav |-> wav.val.raw_data]]
                      ELSE file
           /\ last' = Call("create_polyglot", << >>, r.res)
    /\ pre' = [png |-> png, zip |-> zip]
    /\ nops' = nops + 1
    /\ UNCHANGED << overflow_checks, zip, extracted, patches, wav, constructed >>

NextWav ==
    \/ CreatePngWavPolyglot
    \/ ExtractWavFromPng

SpecWav == InitWav /\ [][NextWav]_vars

\* C24: extract_wav_from_png on a file written by the container+WAV creation,
\* from a WAV whose RIFF size field is its length less 8, succeeds and writes
\* exactly the bytes of that WAV, whatever the container's chunks hold.
C24_WavRoundTrip ==
    (/\ last.op = "extract_wav_from_png"
     /\ last.arg.origin.method = "wav"
     /\ read_u32_le(last.arg.origin.wav, 4) = U32FromNat(Len(last.arg.origin.wav) - 8)) =>
        /\ IsOk(last.res)
        /\ extracted.data = last.arg.origin.wav


(***************************************************************************)
(* SpecEocd: find_eocd on a buffer that holds a trailer, several, a cut    *)
(* one or none, after zero to four other bytes.                            *)
(***************************************************************************)
\* The trailer of an archive without entries, with `comment`.
EmptyTrailer(comment) ==
    EndOfCentralDirectory(0, U32FromNat(0), U32FromNat(0), comment)

\* What follows the leading bytes: a trailer; one with a comment; one that
\* declares five comment bytes and has three; one whose 22-byte comment reads
\* as a trailer that declares five comment bytes; one whose comment is itself a
\* complete trailer; 22 bytes without a signature; the first 21 bytes of a
\* trailer.
Trailers ==
    { EmptyTrailer(<< >>),
      EmptyTrailer(<< 104, 105, 33 >>),
      Slice(EmptyTrailer(<< 1, 2, 3, 4, 5 >>), 0, 25),
      EmptyTrailer(Slice(EmptyTrailer(<< 1, 2, 3, 4, 5 >>), 0, 22)),
      EmptyTrailer(EmptyTrailer(<< >>)),
      Zeros(16) \o Zeros(6),
      Slice(EmptyTrailer(<< >>), 0, 21) }

\* The longest run of bytes before the trailer.
MaxLead == 4

EocdBuffers ==
    {Slice(ZIP_SIG \o Zeros(4), 0, k) \o t : k \in 0..MaxLead, t \in Trailers}

InitEocd ==
    /\ overflow_checks \in BOOLEAN
    /\ file \in {FileOf(d) : d \in EocdBuffers}
    /\ png = NoObject
    /\ zip = NoObject
    /\ extracted = NoFile
    /\ last = Call("start", << >>, Ok("unit"))
    /\ pre = [png |-> png, zip |-> zip]
    /\ patches = 0
    /\ nops = 0
    /\ wav = NoObject
    /\ constructed = NotConstructed

FindEocd ==
    /\ Running
    /\ last' = Call("find_eocd", file.data, find_eocd(file.data))
    /\ pre' = [png |-> png, zip |-> zip]
    /\ nops' = nops + 1
    /\ UNCHANGED << overflow_checks, png, zip, file, extracted, patches, wav, constructed >>

\* ZipArchive::from_data on the bytes of the file.
ZipFromData ==
    /\ Running
    /\ zip = NoObject
    /\ zip' = ZipArchive_from_data(file.data)
    /\ last' = Call("from_data", file.data, Done(ZipArchive_from_data(file.data)))
    /\ pre' = [png |-> png, zip |-> zip]
    /\ nops' = nops + 1
    /\ UNCHANGED << overflow_checks, png, file, extracted, patches, wav, constructed >>

NextEocd ==
    \/ FindEocd
    \/ ZipFromData

SpecEocd == InitEocd /\ [][NextEocd]_vars

\* The offsets of `data` that carry the trailer signature with a comment length
\* no greater than the bytes that follow the 22-byte trailer.
ConsistentTrailers(data) ==
    {offset \in 0..(Len(data) - 22) :
        /\ read_u32_le(data, offset) = EOCD_SIG
        /\ read_u16_le(data, offset + 20) <= Len(data) - offset - 22}

\* C27: find_eocd returns the trailer at the greatest offset of the buffer that
\* carries the signature with a consistent comment length, skipping signatures
\* whose comment length is not consistent, and returns an error exactly when no
\* offset of the buffer carries such a trailer.
C27_HighestConsistentTrailer ==
    last.op = "find_eocd" =>
        IF ConsistentTrailers(last.arg) = {}
        THEN IsErr(last.res)
        ELSE last.res = Ok(EocdAt(last.arg, MaxOf(ConsistentTrailers(last.arg))))

===========================================================================
